---- MODULE Spec2Model ----
(***************************************************************************)
(* Ultrafiltration simulation (UltraFiltrationSim): the particle           *)
(* population, the per-frame step, the fouling model, the flux metric and  *)
(* the reset / backwash handlers, with the React effects that own the      *)
(* animation loop and the regeneration, and the update queue through which *)
(* React applies what the handlers pass to setParticles, setTime and       *)
(* setMembraneHealth.                                                      *)
(*                                                                         *)
(* Numbers.  The program computes in floating point; the model computes    *)
(* the same expressions exactly, in fixed point:                           *)
(*   - positions and velocities (x, y, vx, vy) in 1/PosScale units;        *)
(*   - sizes, poreSize and meanSoluteSize in 1/SizeScale units;            *)
(*   - membraneHealth in 1/HealthScale units;                              *)
(*   - time, dt and the frame clock in ticks of 1/TicksPerSecond second    *)
(*     (one 60 Hz frame);                                                  *)
(*   - a value of Math.random() in tenths (0..9 stands for 0.0..0.9).      *)
(* The scales make every expression of the step a whole number of units    *)
(* for integer pressure, stirRate, feedConcentration, a whole number of    *)
(* frames and a random value in tenths, but for the bounce (-vx * 0.3),    *)
(* which divides by ten: x and vx of a particle are a whole number of      *)
(* units (x, vx) and the decimal digits of the fraction of a unit that     *)
(* the bounces have left (xf, vxf), so that the bounce is exact too.       *)
(*                                                                         *)
(* A double differs from the exact value by a rounding error that grows    *)
(* with the magnitude of the numbers it was computed from, so a comparison *)
(* of the program can differ from the exact one only when the exact values *)
(* are equal, or closer than that error.  The three places where that      *)
(* changes what the program does next (the membrane test, the recycle test *)
(* and the rounding of flux to two decimals) take the side the rounding    *)
(* error fell on as an input, chosen for every particle and every call on  *)
(* its own.                                                                *)
(*                                                                         *)
(* Math.random().  The values it returns are inputs of the operation that  *)
(* calls it: a script is the sequence of values one operation receives,    *)
(* call by call, read cyclically when the operation makes more calls than  *)
(* the script has values.                                                  *)
(*                                                                         *)
(* React.  The updates of step (an animation-frame callback) and of an     *)
(* effect are queued and rendered later, in a step of their own.  The      *)
(* updates of a discrete event (a click, a key press, a slider's change)   *)
(* are rendered before control returns to the host.  What that render does *)
(* with updates that wait in the queue depends on the React the program is *)
(* built with, which its source does not fix:                              *)
(*   - lanes = "split": the event's lane is rendered alone, the waiting    *)
(*     updates stay queued and are replayed later, in the order of the     *)
(*     calls, on base, the state they were queued on;                      *)
(*   - lanes = "unified": the event's render takes the waiting updates     *)
(*     with it, in the order of the calls, and nothing stays queued.       *)
(* lanes is chosen when the component mounts and never changes.            *)
(***************************************************************************)
EXTENDS Integers, Sequences, FiniteSets

(* ---------------------------------------------------------------- scales *)

PosScale == 840000

SizeScale == 200

HealthScale == 5940000

TicksPerSecond == 60

(* ------------------------------------------------- geometry (lib/constants) *)

VESSEL_X == 120

VESSEL_Y == 40

VESSEL_W == 520

VESSEL_H == 300

MEMBRANE_X == 420

(* ---------------------------------------------------------------- bounds *)

\* calls of step (animation frames delivered) in a behaviour
MaxFrames == 4

\* controller inputs (slider changes, key presses, button clicks) in a behaviour
MaxInputs == 2

\* updates that may wait in the queue for a render
MaxPending == 2

\* calls of step and controller inputs in a behaviour, together
MaxOperations == 5

\* frame intervals, in ticks: one frame, and ten seconds (a throttled tab)
DtSet == {1, 600}

\* time the host's clock advances while the simulation is paused, in ticks
IdleSet == {600}

\* how React renders a discrete event while updates wait
LaneSet == {"split", "unified"}

\* the values the controller sets
PressureSet == {40, 100}

StirRateSet == {40, 100}

FeedConcentrationSet == {100, 300}

PoreSizeSet == {10 * SizeScale, 18 * SizeScale}

MeanSoluteSizeSet == {10 * SizeScale, 18 * SizeScale}

\* scripts of Math.random(), in tenths: every call at its least value, every
\* call at nine tenths, and a mixed sequence
Low == << 0 >>

High == << 9 >>

Mixed == << 9, 5, 9, 7, 0 >>

\* the scripts of a render
ScriptSet == { Low, High }

\* the scripts of a call of createParticles
CreateScriptSet == { Mixed }

Null == "null"

\* lastTimeRef.current when it holds no timestamp: null and 0 are both falsy
\* to the test !lastTimeRef.current
NullTime == 0

(* --------------------------------------------------------------- helpers *)

\* n units as a fixed-point position
U(n) == n * PosScale

Max2(a, b) == IF a >= b THEN a ELSE b

Min2(a, b) == IF a <= b THEN a ELSE b

clamp(v, min, max) == Max2(min, Min2(max, v))

\* Math.round of num/den (den > 0): floor(x + 0.5)
MathRound(num, den) == (2 * num + den) \div (2 * den)

\* the value of call n (0-based) of Math.random() under script s, in tenths
Draw(s, n) == s[(n % Len(s)) + 1]

(* ----------------------------------------------- fractions of a unit *)

\* A number of the step is n + 0.f units: n a whole number (the floor) and f
\* the decimal digits of the fraction, the tenths first, the last digit not 0.

\* the window of a comparison is measured in 10^-WindowDigits unit
WindowDigits == 9

WindowUnit == 10 ^ WindowDigits

\* f without its trailing zeros
RECURSIVE Trim(_)
Trim(f) ==
    IF f = << >> THEN f
    ELSE IF f[Len(f)] = 0 THEN Trim(SubSeq(f, 1, Len(f) - 1)) ELSE f

\* f with zeros appended up to k digits
Pad(f, k) == [ i \in 1..k |-> IF i <= Len(f) THEN f[i] ELSE 0 ]

\* the digit t (0..29) written before the digits rest.f, rest.c carried into it
Carry(t, rest) ==
    [ f |-> << (t + rest.c) % 10 >> \o rest.f, c |-> (t + rest.c) \div 10 ]

\* three times the digits f[i..], with the carry out of digit i
RECURSIVE Tripled(_, _)
Tripled(f, i) ==
    IF i > Len(f) THEN [ f |-> << >>, c |-> 0 ]
    ELSE Carry(3 * f[i], Tripled(f, i + 1))

\* the sum of the digits a[i..] and b[i..] (Len(a) = Len(b)), with the carry
RECURSIVE Added(_, _, _)
Added(a, b, i) ==
    IF i > Len(a) THEN [ f |-> << >>, c |-> 0 ]
    ELSE Carry(a[i] + b[i], Added(a, b, i + 1))

\* (an + 0.af) + (bn + 0.bf)
Plus(an, af, bn, bf) ==
    LET k == Max2(Len(af), Len(bf))
        sum == Added(Pad(af, k), Pad(bf, k), 1)
    IN  [ n |-> an + bn + sum.c, f |-> Trim(sum.f) ]

\* -(n + 0.f)
Negated(n, f) ==
    IF f = << >> THEN [ n |-> -n, f |-> f ]
    ELSE [ n |-> -n - 1,
           f |-> [ i \in 1..Len(f) |-> IF i = Len(f) THEN 10 - f[i] ELSE 9 - f[i] ] ]

\* line 134: -(n + 0.f) * 0.3, three times the number shifted by one digit
Bounced(n, f) ==
    LET t == Tripled(f, 1)
        m == 3 * n + t.c
    IN  Negated(m \div 10, Trim(<< m % 10 >> \o t.f))

\* n + 0.f > t, for a whole number t
Above(n, f, t) == n > t \/ (n = t /\ f # << >>)

\* the first k digits of f as a whole number: 0.f in 10^-k, rounded down
RECURSIVE Leading(_, _)
Leading(f, k) ==
    IF k = 0 THEN 0
    ELSE 10 * Leading(f, k - 1) + (IF k <= Len(f) THEN f[k] ELSE 0)

\* The rounding error of a double operation is at most 2^-53 of the
\* magnitude of its result.  The window of a comparison is 2^-40 of the
\* largest magnitude m (in units) among the numbers the compared sum was
\* computed from, which leaves room for the roundings of the operations
\* behind the sum and behind its operands: in 10^-WindowDigits unit,
\* m * 10^9 / 2^40 is below m / 1099, and the window is never empty
Window(m) == m \div 1099 + 1

\* n + 0.f and the whole number t are equal, or closer than the window of
\* magnitude m: the doubles compared in their place can fall on either side
Near(n, f, t, m) ==
    \/ n = t /\ Leading(f, WindowDigits) <= Window(m)
    \/ n = t - 1 /\ WindowUnit - Leading(f, WindowDigits) <= Window(m)

\* n + 0.f held between the whole numbers min and max
Bounded(n, f, min, max) ==
    IF n < min THEN [ n |-> min, f |-> << >> ]
    ELSE IF Above(n, f, max) THEN [ n |-> max, f |-> << >> ]
    ELSE [ n |-> n, f |-> f ]

(* ------------------------------------------------------- createParticles *)

\* mutant: the number of particles truncated instead of rounded
particleNumberTruncated(concentrationValue) ==
    LET normalized1400 == clamp(concentrationValue - 100, 0, 1500 - 100)
    IN  (20 * 1400 + normalized1400 * 130) \div 1400

particleNumber(concentrationValue) ==
    LET normalized1400 == clamp(concentrationValue - 100, 0, 1500 - 100)
    IN  MathRound(20 * 1400 + normalized1400 * 130, 1400)

\* particle i (id i, 0-based), whose three draws are calls o, o + 1, o + 2
NewParticle(i, meanSize, s, o) ==
    LET sizeSpread10 == meanSize * 6
        size == meanSize + ((Draw(s, o) - 5) * sizeSpread10) \div 100
    IN  [ id |-> i,
          x |-> U(VESSEL_X + 20)
                  + (Draw(s, o + 1) * U(MEMBRANE_X - VESSEL_X - 80)) \div 10,
          y |-> U(VESSEL_Y + 30) + (Draw(s, o + 2) * U(VESSEL_H - 80)) \div 10,
          xf |-> << >>,
          size |-> clamp(size, 4 * SizeScale, 20 * SizeScale),
          vx |-> 0,
          vxf |-> << >>,
          vy |-> 0,
          region |-> "feed" ]

\* the population createParticles returns when its calls of Math.random()
\* are calls o, o + 1, ... of script s
createParticles(concentrationValue, meanSize, s, o) ==
    [ i \in 1..particleNumber(concentrationValue) |->
        NewParticle(i - 1, meanSize, s, o + 3 * (i - 1)) ]

createDraws(concentrationValue) == 3 * particleNumber(concentrationValue)

(* ------------------------------------------------------------------ state *)

VARIABLES
    pressure,            \* parameter store: 0..100
    poreSize,            \* parameter store: 6..18, in 1/SizeScale
    feedConcentration,   \* parameter store: 100..1500
    meanSoluteSize,      \* parameter store: 6..18, in 1/SizeScale
    stirRate,            \* parameter store: 0..100
    isRunning,           \* run / pause flag
    particles,           \* the population: a sequence of Particle records
    time,                \* elapsed time, in ticks
    membraneHealth,      \* in 1/HealthScale
    animationRef,        \* "scheduled" while a frame request is pending, else Null
    lastTimeRef,         \* timestamp of the last frame of this loop, else NullTime
    closure,             \* what the scheduled step function captured when its effect ran
    clock,               \* the host's clock, in ticks
    lanes,               \* how React renders a discrete event while updates wait
    queue,               \* the updates React has still to render, in the order of the calls
    base,                \* the population, time and health the queue is replayed on
    frames,              \* number of calls of step so far
    inputs,              \* number of controller inputs so far
    op,                  \* observation: the last operation
    dt,                  \* observation: the dt the last call of step measured, in ticks
    prev,                \* observation: the program state the last operation acted on
    loop                 \* observation: what last re-ran the loop effect, and the time
                         \* the clock advanced while no frame was requested before it

store == <<pressure, poreSize, feedConcentration, meanSoluteSize, stirRate>>

vars == <<pressure, poreSize, feedConcentration, meanSoluteSize, stirRate,
          isRunning, particles, time, membraneHealth, animationRef, lastTimeRef,
          closure, clock, lanes, queue, base, frames, inputs, op, dt, prev, loop>>

Snapshot ==
    [ particles |-> particles, membraneHealth |-> membraneHealth, time |-> time,
      pressure |-> pressure, poreSize |-> poreSize,
      feedConcentration |-> feedConcentration, meanSoluteSize |-> meanSoluteSize,
      stirRate |-> stirRate, isRunning |-> isRunning, closure |-> closure,
      animationRef |-> animationRef, lastTimeRef |-> lastTimeRef, queue |-> queue,
      clock |-> clock ]

\* the values a step function reads from the render whose effect created it
Capture(p, ps, fc, sr, run) ==
    [ pressure |-> p, poreSize |-> ps, feedConcentration |-> fc, stirRate |-> sr,
      isRunning |-> run ]

\* the three states the queued updates act on
Committed ==
    [ particles |-> particles, membraneHealth |-> membraneHealth, time |-> time ]

\* base while nothing is queued
NoBase == [ particles |-> << >>, membraneHealth |-> 0, time |-> 0 ]

(* --------------------------------------------------------- the step: health *)

\* mutant: the decay applied without the clamp
FoulingNextNoClamp(h, env, d) ==
    h - ((env.pressure * (HealthScale \div 2200)
          + env.feedConcentration * (HealthScale \div 9000)) * d) \div TicksPerSecond

\* mutant: the decay without the concentration term
FoulingNextPressureOnly(h, env, d) ==
    LET foulingFromPressure == env.pressure * (HealthScale \div 2200)
        decay == (foulingFromPressure * d) \div TicksPerSecond
    IN  clamp(h - decay, 0, 100 * HealthScale)

\* the updater passed to setMembraneHealth
FoulingNext(h, env, d) ==
    LET foulingFromPressure == env.pressure * (HealthScale \div 2200)
        foulingFromConc == env.feedConcentration * (HealthScale \div 9000)
        decay == ((foulingFromPressure + foulingFromConc) * d) \div TicksPerSecond
    IN  clamp(h - decay, 0, 100 * HealthScale)

(* ------------------------------------------------------ the step: particles *)

topLimit == U(VESSEL_Y + 20)

bottomLimit == U(VESSEL_Y + VESSEL_H - 20)

leftLimit == U(VESSEL_X + 10)

rightLimit == U(VESSEL_X + VESSEL_W - 10)

recycleLimit == U(VESSEL_X + VESSEL_W - 20)

\* the side a sum fell on when its exact value is a threshold of the step:
\* fell, the ids of the particles whose sum compared with MEMBRANE_X - 8 came
\* out below it; rose, the ids of those whose sum compared with the recycle
\* limit came out above it.  Every other sum falls where its exact value is.
Exact == [ fell |-> {}, rose |-> {} ]

\* y after the stirring jitter and the vertical limits: one draw
Stirred(p, env, s, o) ==
    LET y1 == p.y + (Draw(s, o) - 5) * env.stirRate * ((12 * PosScale) \div 1400)
    IN  IF y1 < topLimit THEN topLimit
        ELSE IF y1 > bottomLimit THEN bottomLimit ELSE y1

\* the permeation decision of a feed particle that reached the membrane
Permeates(size, env) == size < env.poreSize

\* |a|
Abs(a) == IF a < 0 THEN -a ELSE a

\* the largest magnitude among the numbers the sum of lines 116-122 is
\* computed from: x, the new vx, the largest jitter of a frame of d ticks,
\* and the threshold it is compared with
FeedMagnitude(p, env, d) ==
    LET vx1 == p.vx + (35 + env.pressure) * d * (PosScale \div (70 * TicksPerSecond))
        jitter == 5 * d * 8 * (PosScale \div (10 * TicksPerSecond))
    IN  Max2(Max2(Abs(p.x) + 1, Abs(vx1) + 1), Max2(jitter, U(MEMBRANE_X - 8)))

\* mutant: no pressure-driven flow, a feed particle only jitters
FeedBranchNoFlow(p, env, d, s, o, y, side) ==
    LET x2 == p.x + (Draw(s, o + 1) - 5) * d * 8 * (PosScale \div (10 * TicksPerSecond))
        tie == Near(x2, p.xf, U(MEMBRANE_X - 8), FeedMagnitude(p, env, d))
    IN  IF (IF tie THEN p.id \notin side.fell ELSE x2 >= U(MEMBRANE_X - 8))
        THEN IF Permeates(p.size, env)
             THEN [ x |-> U(MEMBRANE_X + 16), xf |-> << >>, y |-> y,
                    vx |-> env.pressure * ((20 * PosScale) \div 70), vxf |-> << >>,
                    vy |-> p.vy, region |-> "permeate", draws |-> 2, tie |-> tie ]
             ELSE [ x |-> U(MEMBRANE_X - 10), xf |-> << >>, y |-> y,
                    vx |-> 0, vxf |-> << >>, vy |-> p.vy,
                    region |-> "retentate", draws |-> 2, tie |-> tie ]
        ELSE [ x |-> x2, xf |-> p.xf, y |-> y, vx |-> p.vx, vxf |-> p.vxf, vy |-> p.vy,
               region |-> "feed", draws |-> 2, tie |-> tie ]

\* mutant: a particle that reaches the membrane changes region where it is
FeedBranchNoReposition(p, env, d, s, o, y, side) ==
    LET vx1 == p.vx + (35 + env.pressure) * d * (PosScale \div (70 * TicksPerSecond))
        x1 == Plus(p.x, p.xf, vx1, p.vxf)
        x2 == x1.n + (Draw(s, o + 1) - 5) * d * 8 * (PosScale \div (10 * TicksPerSecond))
        tie == Near(x2, x1.f, U(MEMBRANE_X - 8), FeedMagnitude(p, env, d))
        bounce == Bounced(vx1, p.vxf)
    IN  IF (IF tie THEN p.id \notin side.fell ELSE x2 >= U(MEMBRANE_X - 8))
        THEN IF Permeates(p.size, env)
             THEN [ x |-> x2, xf |-> x1.f, y |-> y,
                    vx |-> env.pressure * ((20 * PosScale) \div 70), vxf |-> << >>,
                    vy |-> p.vy, region |-> "permeate", draws |-> 2, tie |-> tie ]
             ELSE [ x |-> x2, xf |-> x1.f, y |-> y,
                    vx |-> bounce.n, vxf |-> bounce.f, vy |-> p.vy,
                    region |-> "retentate", draws |-> 2, tie |-> tie ]
        ELSE [ x |-> x2, xf |-> x1.f, y |-> y, vx |-> vx1, vxf |-> p.vxf, vy |-> p.vy,
               region |-> "feed", draws |-> 2, tie |-> tie ]

\* lines 114-136.  (0.5 + pressure / 70) * dt is (35 + pressure) * d / (70 * 60)
\* and (random - 0.5) * dt * 8 is (tenths - 5) * d * 8 / (10 * 60), both whole
\* numbers of units: vx1 keeps the fraction of vx, and the sum x2 that of x1.
\* The sum reaches the membrane when it is at MEMBRANE_X - 8 or above; when
\* the two are equal, or closer than the rounding error, side tells whether
\* the sum of the doubles fell below
FeedBranch(p, env, d, s, o, y, side) ==
    LET vx1 == p.vx + (35 + env.pressure) * d * (PosScale \div (70 * TicksPerSecond))
        x1 == Plus(p.x, p.xf, vx1, p.vxf)
        x2 == x1.n + (Draw(s, o + 1) - 5) * d * 8 * (PosScale \div (10 * TicksPerSecond))
        tie == Near(x2, x1.f, U(MEMBRANE_X - 8), FeedMagnitude(p, env, d))
        bounce == Bounced(vx1, p.vxf)
    IN  IF (IF tie THEN p.id \notin side.fell ELSE x2 >= U(MEMBRANE_X - 8))
        THEN IF Permeates(p.size, env)
             THEN [ x |-> U(MEMBRANE_X + 16), xf |-> << >>, y |-> y,
                    vx |-> env.pressure * ((20 * PosScale) \div 70), vxf |-> << >>,
                    vy |-> p.vy, region |-> "permeate", draws |-> 2, tie |-> tie ]
             ELSE [ x |-> U(MEMBRANE_X - 10), xf |-> << >>, y |-> y,
                    vx |-> bounce.n, vxf |-> bounce.f, vy |-> p.vy,
                    region |-> "retentate", draws |-> 2, tie |-> tie ]
        ELSE [ x |-> x2, xf |-> x1.f, y |-> y, vx |-> vx1, vxf |-> p.vxf, vy |-> p.vy,
               region |-> "feed", draws |-> 2, tie |-> tie ]

\* mutant: a retentate particle that drifts off the membrane rejoins feed
RetentateBranchRejoinsFeed(p, env, d, s, o, y, side) ==
    LET x1 == p.x + (Draw(s, o + 1) - 3) * d * 25 * (PosScale \div (10 * TicksPerSecond))
        y1 == y + (Draw(s, o + 2) - 5) * d * 16 * (PosScale \div (10 * TicksPerSecond))
        c == Bounded(x1, p.xf, U(VESSEL_X + 20), U(MEMBRANE_X - 12))
    IN  [ x |-> c.n, xf |-> c.f, y |-> y1,
          vx |-> p.vx, vxf |-> p.vxf, vy |-> p.vy,
          region |-> IF x1 < U(MEMBRANE_X - 12) THEN "feed" ELSE "retentate",
          draws |-> 3, tie |-> FALSE ]

\* lines 137-141: the drift is a whole number of units and vx is kept as it is
RetentateBranch(p, env, d, s, o, y, side) ==
    LET x1 == p.x + (Draw(s, o + 1) - 3) * d * 25 * (PosScale \div (10 * TicksPerSecond))
        y1 == y + (Draw(s, o + 2) - 5) * d * 16 * (PosScale \div (10 * TicksPerSecond))
        c == Bounded(x1, p.xf, U(VESSEL_X + 20), U(MEMBRANE_X - 12))
    IN  [ x |-> c.n, xf |-> c.f, y |-> y1,
          vx |-> p.vx, vxf |-> p.vxf, vy |-> p.vy, region |-> "retentate",
          draws |-> 3, tie |-> FALSE ]

\* mutant: a permeate particle is never recycled
PermeateBranchNoRecycle(p, env, d, s, o, y, side) ==
    LET vx1 == p.vx + (32 + env.pressure) * d * (PosScale \div (80 * TicksPerSecond))
        vy1 == p.vy + 15 * d * (PosScale \div (100 * TicksPerSecond))
        room == rightLimit - p.x
        run == IF d > 0 /\ vx1 \div 5 > room \div d THEN room ELSE (vx1 \div 5) * d
    IN  [ x |-> p.x + run, xf |-> p.xf, y |-> y + (vy1 \div 6) * d,
          vx |-> vx1, vxf |-> p.vxf, vy |-> vy1, region |-> "permeate",
          draws |-> 1, tie |-> FALSE ]

\* lines 142-159.  (0.4 + pressure / 80) * dt is (32 + pressure) * d / (80 * 60),
\* vx * dt * 12 is vx * d / 5 and vy * dt * 10 is vy * d / 6; vx and vy of a
\* permeate particle are multiples of 5 and of 6 at this scale, and x and vx
\* whole numbers of units (lines 127-129 set both).  The distance
\* (vx1 / 5) * d is compared with the room left before the recycle limit
\* without forming the product: a * d > room iff a > room \div d.
PermeateBranch(p, env, d, s, o, y, side) ==
    LET vx1 == p.vx + (32 + env.pressure) * d * (PosScale \div (80 * TicksPerSecond))
        vy1 == p.vy + 15 * d * (PosScale \div (100 * TicksPerSecond))
        a == vx1 \div 5
        room == recycleLimit - p.x
        beyond == d > 0 /\ a > room \div d
        tie == d > 0 /\ room % d = 0 /\ a = room \div d
    IN  IF beyond \/ (tie /\ p.id \in side.rose)
        THEN [ x |-> U(VESSEL_X + 20) + (Draw(s, o + 1) * U(40)) \div 10, xf |-> << >>,
               y |-> U(VESSEL_Y + 30) + (Draw(s, o + 2) * U(VESSEL_H - 80)) \div 10,
               vx |-> 0, vxf |-> << >>, vy |-> 0,
               region |-> "feed", draws |-> 3, tie |-> tie ]
        ELSE [ x |-> p.x + a * d, xf |-> p.xf, y |-> y + (vy1 \div 6) * d,
               vx |-> vx1, vxf |-> p.vxf, vy |-> vy1,
               region |-> "permeate", draws |-> 1, tie |-> tie ]

\* hard bounds inside the vessel: x only
HardBounds(x, xf) == Bounded(x, xf, leftLimit, rightLimit)

\* the branch of the particle's region (lines 114, 137, 142), y being the
\* stirred and limited y of lines 104-112
RegionBranch(p, env, d, s, o, y, side) ==
    IF p.region = "feed" THEN FeedBranch(p, env, d, s, o, y, side)
    ELSE IF p.region = "retentate" THEN RetentateBranch(p, env, d, s, o, y, side)
    ELSE PermeateBranch(p, env, d, s, o, y, side)

\* the particle returned: x within the hard bounds, the rest as the branch
\* left it
Kept(p, b, x) ==
    [ id |-> p.id, x |-> x.n, xf |-> x.f, y |-> b.y, size |-> p.size,
      vx |-> b.vx, vxf |-> b.vxf, vy |-> b.vy, region |-> b.region ]

\* lines 161-167: the hard bounds on x and the particle returned, b being
\* what the branch left; with the draws the callback used and the id of the
\* particle when the sum of its branch was at the branch's threshold
Returned(p, b) ==
    [ p |-> Kept(p, b, HardBounds(b.x, b.xf)),
      draws |-> b.draws,
      fell |-> IF b.tie /\ p.region = "feed" THEN { p.id } ELSE {},
      rose |-> IF b.tie /\ p.region = "permeate" THEN { p.id } ELSE {} ]

\* the body of prev.map
StepParticle(p, env, d, s, o, side) ==
    Returned(p, RegionBranch(p, env, d, s, o, Stirred(p, env, s, o), side))

\* the array prev.map returns for one particle, whose callback returned r
\* and made its first call of Math.random() as call o
MapOne(r, o) ==
    [ particles |-> << r.p >>, o |-> o + r.draws, fell |-> r.fell, rose |-> r.rose ]

\* the array prev.map returns: left for the particles up to one, right for
\* those after it
MapJoin(left, right) ==
    [ particles |-> left.particles \o right.particles, o |-> right.o,
      fell |-> left.fell \cup right.fell, rose |-> left.rose \cup right.rose ]

\* prev.map over particles lo..hi in the order of the array, the first call
\* of Math.random() being call o; the range is halved so that the nesting
\* stays logarithmic in the number of particles.  fell and rose of the result
\* are the ids of the particles whose sum was at its threshold
RECURSIVE StepFrom(_, _, _, _, _, _, _, _)
StepFrom(ps, lo, hi, env, d, s, o, side) ==
    IF lo > hi THEN [ particles |-> << >>, o |-> o, fell |-> {}, rose |-> {} ]
    ELSE IF lo = hi THEN MapOne(StepParticle(ps[lo], env, d, s, o, side), o)
    ELSE LET mid == (lo + hi) \div 2
             left == StepFrom(ps, lo, mid, env, d, s, o, side)
         IN  MapJoin(left, StepFrom(ps, mid + 1, hi, env, d, s, left.o, side))

StepParticles(ps, env, d, s, o, side) == StepFrom(ps, 1, Len(ps), env, d, s, o, side)

(* --------------------------------------------------------------- backwash *)

\* mutant: the increment applied without the clamp
BackwashHealthNoClamp(h) == h + 25 * HealthScale

\* the updater passed to setMembraneHealth by handleBackwash
BackwashHealth(h) == clamp(h + 25 * HealthScale, 0, 100 * HealthScale)

\* mutant: the particle is shifted but stays in retentate
BackwashParticleKeepsRegion(p) ==
    IF p.region = "retentate" THEN [ p EXCEPT !.x = p.x - U(40) ] ELSE p

\* mutant: every particle is pushed back, whatever its region
BackwashParticleAnyRegion(p) == [ p EXCEPT !.x = p.x - U(40), !.region = "feed" ]

\* the body of prev.map in handleBackwash
BackwashParticle(p) ==
    IF p.region = "retentate"
    THEN [ p EXCEPT !.x = p.x - U(40), !.region = "feed" ]
    ELSE p

\* mutant: retentate particles are flushed out of the population
BackwashParticlesFlushed(ps) == SelectSeq(ps, LAMBDA p : p.region # "retentate")

BackwashParticles(ps) == [ i \in 1..Len(ps) |-> BackwashParticle(ps[i]) ]

(* ------------------------------------------------------------------- flux *)

permeateCount(ps) == Cardinality({ i \in 1..Len(ps) : ps[i].region = "permeate" })

\* <<q, r>> with a * b = q * c + r and 0 <= r < c, for a, b >= 0 and c > 0,
\* by halving a: no intermediate value exceeds 3 * c + b
RECURSIVE MulDivQR(_, _, _)
MulDivQR(a, b, c) ==
    IF a = 0 THEN << 0, 0 >>
    ELSE LET h == MulDivQR(a \div 2, b, c)
             q2 == 2 * h[1] + (IF a % 2 = 1 THEN b \div c ELSE 0)
             r2 == 2 * h[2] + (IF a % 2 = 1 THEN b % c ELSE 0)
         IN  << q2 + r2 \div c, r2 % c >>

\* mutant: flux proportional to health, without the 0.4 residual
fluxNoResidual(ps, p, t, h, up) ==
    LET num == permeateCount(ps) * p * TicksPerSecond
        den == 50 * (TicksPerSecond + t)
        qr == MulDivQR(2 * num, h, HealthScale)
        twice == qr[1] \div den
        tie == qr[2] = 0 /\ qr[1] % den = 0 /\ twice % 2 = 1
    IN  IF tie /\ ~up THEN twice \div 2 ELSE (twice + 1) \div 2

\* Number(x.toFixed(2)) of x = baseFlux * (0.4 + membraneHealth / 100), in
\* hundredths: the hundredth nearest to the double x.
\*   baseFlux = (permeateCount * (pressure / 50)) / (1 + time)
\*            = num / den,  num = permeateCount * pressure * TicksPerSecond,
\*                          den = 50 * (TicksPerSecond + time in ticks)
\*   100 * x  = num * (40 * HealthScale + h) / (den * HealthScale)
\* twice is floor(200 * x).  When the exact 100 * x lies half way between two
\* hundredths the double lies on one side of it: up tells that it is not below
flux(ps, p, t, h, up) ==
    LET num == permeateCount(ps) * p * TicksPerSecond
        den == 50 * (TicksPerSecond + t)
        qr == MulDivQR(2 * num, 40 * HealthScale + h, HealthScale)
        twice == qr[1] \div den
        tie == qr[2] = 0 /\ qr[1] % den = 0 /\ twice % 2 = 1
    IN  IF tie /\ ~up THEN twice \div 2 ELSE (twice + 1) \div 2

(* ------------------------------------------------------- the update queue *)

\* the closure of an update that reads none
NoEnv == Capture(0, 0, 0, 0, FALSE)

\* what step passes to setMembraneHealth, setParticles and setTime (lines 92,
\* 100, 171): its dt and the values its closure holds
StepUpdate(d, env) == [ kind |-> "step", dt |-> d, env |-> env, particles |-> << >> ]

\* what handleBackwash passes to setMembraneHealth and setParticles
BackwashUpdate == [ kind |-> "backwash", dt |-> 0, env |-> NoEnv, particles |-> << >> ]

\* what handleResetSystem passes to setParticles, setTime and setMembraneHealth
ResetUpdate(ps) == [ kind |-> "reset", dt |-> 0, env |-> NoEnv, particles |-> ps ]

\* what the regeneration effect passes to setParticles and setTime
RegenerateUpdate(ps) ==
    [ kind |-> "regenerate", dt |-> 0, env |-> NoEnv, particles |-> ps ]

\* the state the three updaters of step leave, r being what the updater of
\* setParticles returned
StepApplied(st, u, r) ==
    [ st |-> [ particles |-> r.particles,
               membraneHealth |-> FoulingNext(st.membraneHealth, u.env, u.dt),
               time |-> st.time + u.dt ],
      o |-> r.o, fell |-> r.fell, rose |-> r.rose ]

\* the three updaters of step applied to st, the calls of Math.random() of
\* the second starting at call o of script s
StepApply(st, u, s, o, side) ==
    StepApplied(st, u, StepParticles(st.particles, u.env, u.dt, s, o, side))

\* the two updaters of handleBackwash
BackwashApply(st, u) ==
    [ particles |-> BackwashParticles(st.particles),
      membraneHealth |-> BackwashHealth(st.membraneHealth),
      time |-> st.time ]

\* mutant: the reset forgets the membrane
ResetApplyKeepsHealth(st, u) ==
    [ particles |-> u.particles, membraneHealth |-> st.membraneHealth, time |-> 0 ]

\* the three values of handleResetSystem
ResetApply(st, u) ==
    [ particles |-> u.particles, membraneHealth |-> 100 * HealthScale, time |-> 0 ]

\* mutant: the regeneration forgets the elapsed time
RegenerateApplyKeepsTime(st, u) ==
    [ particles |-> u.particles, membraneHealth |-> st.membraneHealth,
      time |-> st.time ]

\* the two values of the regeneration effect
RegenerateApply(st, u) ==
    [ particles |-> u.particles, membraneHealth |-> st.membraneHealth, time |-> 0 ]

\* an update that calls no Math.random() applied to st
ApplyPlain(st, u) ==
    IF u.kind = "backwash" THEN BackwashApply(st, u)
    ELSE IF u.kind = "reset" THEN ResetApply(st, u)
    ELSE RegenerateApply(st, u)

\* one queued update applied to st
ApplyUpdate(st, u, s, o, side) ==
    IF u.kind = "step" THEN StepApply(st, u, s, o, side)
    ELSE [ st |-> ApplyPlain(st, u), o |-> o, fell |-> {}, rose |-> {} ]

\* The sides of a render name a sum by the update and the particle: << i, id >>
\* is the sum of particle id in update i of the queue.

\* the sides of update i
SideAt(side, i) ==
    [ fell |-> { t[2] : t \in { u \in side.fell : u[1] = i } },
      rose |-> { t[2] : t \in { u \in side.rose : u[1] = i } } ]

\* the state the queue leaves: r for update i, rest for those after it
ApplyJoin(r, rest, i) ==
    [ st |-> rest.st, o |-> rest.o,
      fell |-> { << i, id >> : id \in r.fell } \cup rest.fell,
      rose |-> { << i, id >> : id \in r.rose } \cup rest.rose ]

\* the queue from update i on, applied in the order of the calls
RECURSIVE ApplyFrom(_, _, _, _, _, _)
ApplyFrom(st, q, i, s, o, side) ==
    IF i > Len(q) THEN [ st |-> st, o |-> o, fell |-> {}, rose |-> {} ]
    ELSE LET r == ApplyUpdate(st, q[i], s, o, SideAt(side, i))
         IN  ApplyJoin(r, ApplyFrom(r.st, q, i + 1, s, r.o, side), i)

ApplyQueue(st, q, s, side) == ApplyFrom(st, q, 1, s, 0, side)

\* sum u is computed before sum t
Before(u, t) == u[1] < t[1] \/ (u[1] = t[1] /\ u[2] < t[2])

\* the sums of r at their threshold that are computed after every sum side
\* has moved: r is what the queue leaves under side
Open(r, side) ==
    { t \in r.fell \cup r.rose : \A u \in side.fell \cup side.rose : Before(u, t) }

\* side, with the sum t of r on the other side of its threshold too
Moved(side, t, r) ==
    [ fell |-> side.fell \cup ({ t } \cap r.fell),
      rose |-> side.rose \cup ({ t } \cap r.rose) ]

\* the states the queue can leave: every sum at its threshold falls on
\* either side, whatever the others do.  A sum moved to the other side
\* changes the sums computed after it and none computed before, so the
\* sides are built in the order of the computation
RECURSIVE Outcomes(_, _, _, _)
RECURSIVE Branching(_, _, _, _, _)
Outcomes(st, q, s, side) == Branching(st, q, s, side, ApplyQueue(st, q, s, side))

\* the states the queue can leave when side is decided and r is what the
\* queue leaves under it
Branching(st, q, s, side, r) ==
    { r.st } \cup UNION { Outcomes(st, q, s, Moved(side, t, r)) : t \in Open(r, side) }

(* ------------------------------------------------------------------- Init *)

\* the component once it has mounted, with membraneHealth h: the first
\* render holds the population of the useState initialiser, the loop effect
\* has requested the first frame, and the regeneration effect, which runs on
\* mounting too, has queued a second population
InitState(h) ==
    /\ pressure = 40
    /\ poreSize = 10 * SizeScale
    /\ feedConcentration = 300
    /\ meanSoluteSize = 10 * SizeScale
    /\ stirRate = 40
    /\ isRunning = TRUE
    /\ \E s \in CreateScriptSet :
          /\ particles = createParticles(300, 10 * SizeScale, s, 0)
          /\ queue = << RegenerateUpdate(
                           createParticles(300, 10 * SizeScale, s, createDraws(300))) >>
    /\ time = 0
    /\ membraneHealth = h
    /\ base = Committed
    /\ animationRef = "scheduled"
    /\ lastTimeRef = NullTime
    /\ closure = Capture(40, 10 * SizeScale, 300, 40, TRUE)
    /\ clock = 1
    /\ lanes \in LaneSet
    /\ frames = 0
    /\ inputs = 0
    /\ op = "init"
    /\ dt = 0
    /\ prev = Snapshot
    /\ loop = [ cause |-> "mount", idle |-> 0 ]

Init == InitState(100 * HealthScale)

(* ---------------------------------------------------------------- actions *)

Observe(name) ==
    /\ op' = name
    /\ prev' = Snapshot

\* the render shows st
Shown(st) ==
    /\ particles' = st.particles
    /\ membraneHealth' = st.membraneHealth
    /\ time' = st.time

\* an update called outside an event handler waits in the queue
Enqueue(u) ==
    /\ queue' = Append(queue, u)
    /\ base' = IF queue = << >> THEN Committed ELSE base

\* one call of step (lines 85-176): the host delivers the requested frame
\* with its timestamp, k ticks after the clock's last value; step measures
\* dt, keeps the timestamp, queues its three updates and requests the next
\* frame
Frame(k) ==
    /\ animationRef = "scheduled"
    /\ Len(queue) < MaxPending
    /\ LET timestamp == clock + k
           last == IF lastTimeRef = NullTime THEN timestamp ELSE lastTimeRef
           d == timestamp - last
       IN  /\ lastTimeRef' = timestamp
           /\ Enqueue(StepUpdate(d, closure))
           /\ animationRef' = IF closure.isRunning THEN "scheduled" ELSE Null
           /\ clock' = timestamp
           /\ dt' = d
    /\ Observe("frame")
    /\ frames' = frames + 1
    /\ UNCHANGED <<store, isRunning, particles, time, membraneHealth, closure, lanes,
                   inputs, loop>>

\* the delay of the first frame of a loop: the longest of DtSet.  That
\* frame finds no timestamp of an earlier one, so its delay enters no dt and
\* only shifts the clock
FirstDelay == CHOOSE k \in DtSet : \A j \in DtSet : j <= k

\* one animation frame of a behaviour of at most MaxFrames frames
Step(k) ==
    /\ frames < MaxFrames
    /\ frames + inputs < MaxOperations
    /\ lastTimeRef = NullTime => k = FirstDelay
    /\ Frame(k)

\* React renders the queued updates, in the order of the calls, on the state
\* they were queued on; s scripts the calls of Math.random() the updaters of
\* step make, and every sum at a threshold falls on one side of it
Render(s) ==
    /\ queue # << >>
    /\ \E st \in Outcomes(base, queue, s, Exact) : Shown(st)
    /\ queue' = << >>
    /\ base' = NoBase
    /\ Observe("render")
    /\ UNCHANGED <<store, isRunning, animationRef, lastTimeRef, closure, clock, lanes,
                   frames, inputs, dt, loop>>

\* the host's clock advances by k ticks while no frame is requested (the
\* simulation is paused); the time of one pause is taken in one piece
Idle(k) ==
    /\ animationRef = Null
    /\ loop.idle = 0
    /\ clock' = clock + k
    /\ loop' = [ loop EXCEPT !.idle = k ]
    /\ Observe("idle")
    /\ UNCHANGED <<store, isRunning, particles, time, membraneHealth, animationRef,
                   lastTimeRef, closure, lanes, queue, base, frames, inputs, dt>>

\* the updates that still wait once a discrete event is rendered
Waiting == IF lanes = "split" THEN queue ELSE << >>

\* the states the updates of a discrete event can act on: what the last
\* render showed, or, the lanes unified, what the waiting updates make of the
\* state they were queued on, s scripting their calls of Math.random()
Flushed(s) ==
    IF lanes = "split" \/ queue = << >> THEN { Committed }
    ELSE Outcomes(base, queue, s, Exact)

\* the render of the discrete event name: st is the state its updates act
\* on, shown the state they leave and q the updates that wait after it, to
\* be replayed in the order of the calls
Discrete(name, st, shown, q) ==
    /\ Shown(shown)
    /\ queue' = q
    /\ base' = IF q = << >> THEN NoBase ELSE IF Waiting = << >> THEN st ELSE base
    /\ inputs' = inputs + 1
    /\ op' = name
    /\ prev' = [ Snapshot EXCEPT !.particles = st.particles,
                                 !.membraneHealth = st.membraneHealth,
                                 !.time = st.time,
                                 !.queue = Waiting ]
    /\ UNCHANGED <<clock, lanes, frames, dt>>

\* a discrete event whose handler calls no updater of the population
Plain(name, s) == \E st \in Flushed(s) : Discrete(name, st, st, Waiting)

\* a discrete event whose handler calls the updaters of u
RenderNow(name, u, s) ==
    \E st \in Flushed(s) :
        Discrete(name, st, ApplyPlain(st, u),
                 IF Waiting = << >> THEN << >> ELSE Append(Waiting, u))

\* a discrete event after whose render the regeneration effect re-runs
\* (lines 78-81): it queues a fresh population and time 0
Regenerate(name, fc, ms, c, s) ==
    \E st \in Flushed(s) :
        Discrete(name, st, st, Append(Waiting, RegenerateUpdate(createParticles(fc, ms, c, 0))))

\* mutant: the cleanup keeps the timestamp of the last frame
RestartLoopKeepsLastTime(cause, p, ps, fc, sr, run) ==
    /\ animationRef' = IF run THEN "scheduled" ELSE Null
    /\ lastTimeRef' = lastTimeRef
    /\ closure' = Capture(p, ps, fc, sr, run)
    /\ loop' = [ cause |-> cause, idle |-> IF isRunning THEN 0 ELSE loop.idle ]

\* the simulation-loop effect re-runs (a dependency changed): its cleanup
\* cancels the pending frame and clears both refs, its body captures the
\* new render's values and schedules a frame when running
RestartLoop(cause, p, ps, fc, sr, run) ==
    /\ animationRef' = IF run THEN "scheduled" ELSE Null
    /\ lastTimeRef' = NullTime
    /\ closure' = Capture(p, ps, fc, sr, run)
    /\ loop' = [ cause |-> cause, idle |-> IF isRunning THEN 0 ELSE loop.idle ]

\* mutant: a pressure change regenerates the population too
SetPressureRegenerates(v, s) ==
    /\ v # pressure
    /\ pressure' = v
    /\ Regenerate("setPressure", feedConcentration, meanSoluteSize, Mixed, s)
    /\ RestartLoop("setPressure", v, poreSize, feedConcentration, stirRate, isRunning)
    /\ UNCHANGED <<poreSize, feedConcentration, meanSoluteSize, stirRate, isRunning>>

SetPressure(v, s) ==
    /\ v # pressure
    /\ pressure' = v
    /\ Plain("setPressure", s)
    /\ RestartLoop("setPressure", v, poreSize, feedConcentration, stirRate, isRunning)
    /\ UNCHANGED <<poreSize, feedConcentration, meanSoluteSize, stirRate, isRunning>>

SetStirRate(v, s) ==
    /\ v # stirRate
    /\ stirRate' = v
    /\ Plain("setStirRate", s)
    /\ RestartLoop("setStirRate", pressure, poreSize, feedConcentration, v, isRunning)
    /\ UNCHANGED <<pressure, poreSize, feedConcentration, meanSoluteSize, isRunning>>

SetFeedConcentration(v, c, s) ==
    /\ v # feedConcentration
    /\ feedConcentration' = v
    /\ Regenerate("setFeedConcentration", v, meanSoluteSize, c, s)
    /\ RestartLoop("setFeedConcentration", pressure, poreSize, v, stirRate, isRunning)
    /\ UNCHANGED <<pressure, poreSize, meanSoluteSize, stirRate, isRunning>>

SetPoreSize(v, c, s) ==
    /\ v # poreSize
    /\ poreSize' = v
    /\ Regenerate("setPoreSize", feedConcentration, meanSoluteSize, c, s)
    /\ UNCHANGED <<pressure, feedConcentration, meanSoluteSize, stirRate, isRunning,
                   animationRef, lastTimeRef, closure, loop>>

SetMeanSoluteSize(v, c, s) ==
    /\ v # meanSoluteSize
    /\ meanSoluteSize' = v
    /\ Regenerate("setMeanSoluteSize", feedConcentration, v, c, s)
    /\ UNCHANGED <<pressure, poreSize, feedConcentration, stirRate, isRunning,
                   animationRef, lastTimeRef, closure, loop>>

\* Space key, or the play / pause button
ToggleRunning(s) ==
    /\ isRunning' = ~isRunning
    /\ Plain("toggleRunning", s)
    /\ RestartLoop(IF isRunning THEN "pause" ELSE "resume",
                   pressure, poreSize, feedConcentration, stirRate, ~isRunning)
    /\ UNCHANGED store

handleResetSystem(c, s) ==
    /\ RenderNow("reset",
                 ResetUpdate(createParticles(feedConcentration, meanSoluteSize, c, 0)), s)
    /\ UNCHANGED <<store, isRunning, animationRef, lastTimeRef, closure, loop>>

handleBackwash(s) ==
    /\ RenderNow("backwash", BackwashUpdate, s)
    /\ UNCHANGED <<store, isRunning, animationRef, lastTimeRef, closure, loop>>

\* one input of the controller
Control ==
    \/ \E v \in PressureSet, s \in ScriptSet : SetPressure(v, s)
    \/ \E v \in StirRateSet, s \in ScriptSet : SetStirRate(v, s)
    \/ \E v \in FeedConcentrationSet, c \in CreateScriptSet, s \in ScriptSet :
          SetFeedConcentration(v, c, s)
    \/ \E v \in PoreSizeSet, c \in CreateScriptSet, s \in ScriptSet : SetPoreSize(v, c, s)
    \/ \E v \in MeanSoluteSizeSet, c \in CreateScriptSet, s \in ScriptSet :
          SetMeanSoluteSize(v, c, s)
    \/ \E s \in ScriptSet : ToggleRunning(s)
    \/ \E c \in CreateScriptSet, s \in ScriptSet : handleResetSystem(c, s)
    \/ \E s \in ScriptSet : handleBackwash(s)

Next ==
    \/ \E k \in DtSet : Step(k)
    \/ \E s \in ScriptSet : Render(s)
    \/ \E k \in IdleSet : Idle(k)
    \/ inputs < MaxInputs /\ frames + inputs < MaxOperations /\ Control

Spec == Init /\ [][Next]_vars

(* ------------------------------------------- the fouling updater, alone *)

\* applications of the updater in a behaviour of FoulingSpec
MaxFoulingSteps == 2

FoulingHealthSet == {0, HealthScale \div 10, 50 * HealthScale, 100 * HealthScale}

FoulingPressureSet == {0, 40, 100}

FoulingConcentrationSet == {100, 300, 1500}

FoulingDtSet == {0, 1, 600}

FoulingInit == \E h \in FoulingHealthSet : InitState(h)

\* the updater of lines 92-98 applied to the current health, for a step whose
\* closure holds pressure p and feedConcentration c and whose dt is d
FoulingStep(p, c, d) ==
    /\ frames < MaxFoulingSteps
    /\ frames' = frames + 1
    /\ pressure' = p
    /\ feedConcentration' = c
    /\ closure' = Capture(p, poreSize, c, stirRate, isRunning)
    /\ membraneHealth' = FoulingNext(membraneHealth, closure', d)
    /\ dt' = d
    /\ Observe("fouling")
    /\ UNCHANGED <<poreSize, meanSoluteSize, stirRate, isRunning, particles, time,
                   animationRef, lastTimeRef, clock, lanes, queue, base, inputs, loop>>

FoulingNextStep ==
    \E p \in FoulingPressureSet, c \in FoulingConcentrationSet, d \in FoulingDtSet :
        FoulingStep(p, c, d)

FoulingSpec == FoulingInit /\ [][FoulingNextStep]_vars

(* ------------------------------------ the controller on a fouled membrane *)

\* calls of step in a behaviour of ControlSpec
MaxControlFrames == 3

\* controller inputs in a behaviour of ControlSpec
MaxControlInputs == 3

\* membraneHealth when the behaviour starts: 0 (a long run has fouled the
\* membrane completely), 0.37 (less than the decay of one frame of ten
\* seconds), 50, 80 (a backwash overshoots 100) and 100.  A long run leaves
\* each of them (100 less a multiple of 11 * 100 a tick, at pressure 0 and
\* feedConcentration 100), and a change of poreSize and back then leaves a
\* fresh population and elapsed time 0 with it
ControlHealthSet ==
    {0, 2200000, 50 * HealthScale, 80 * HealthScale, 100 * HealthScale}

\* the script of every render of ControlSpec: every jitter at nine tenths,
\* which takes a feed particle to the membrane soonest
ControlScriptSet == { High }

ControlInit == \E h \in ControlHealthSet : InitState(h)

\* frame interval of ControlSpec, in ticks: ten seconds, the longest of DtSet
ControlDtSet == {600}

ControlStep ==
    /\ frames < MaxControlFrames
    /\ \E k \in ControlDtSet : Frame(k)

\* the inputs that bear on membraneHealth: the parameters of the decay, the
\* pause, the reset and the backwash
ControlInput ==
    \/ \E v \in PressureSet, s \in ControlScriptSet : SetPressure(v, s)
    \/ \E v \in FeedConcentrationSet, c \in CreateScriptSet, s \in ControlScriptSet :
          SetFeedConcentration(v, c, s)
    \/ \E s \in ControlScriptSet : ToggleRunning(s)
    \/ \E c \in CreateScriptSet, s \in ControlScriptSet : handleResetSystem(c, s)
    \/ \E s \in ControlScriptSet : handleBackwash(s)

ControlNext ==
    \/ ControlStep
    \/ \E s \in ControlScriptSet : Render(s)
    \/ \E k \in IdleSet : Idle(k)
    \/ inputs < MaxControlInputs /\ ControlInput

ControlSpec == ControlInit /\ [][ControlNext]_vars

(* ------------------------------------------------- createParticles, alone *)

\* applications of the generator in a behaviour of GeneratorSpec
MaxGenerations == 1

\* feedConcentration over its range, in steps of 10: the slider's values and
\* every value whose particle number is a tie (x.5)
GeneratorConcentrationSet == { 100 + 10 * k : k \in 0..140 }

GeneratorScriptSet == { Low, Mixed }

\* createParticles(c, meanSoluteSize) as the regeneration effect and
\* handleResetSystem call it, its result taken as the population
Generate(c, s) ==
    /\ frames < MaxGenerations
    /\ frames' = frames + 1
    /\ feedConcentration' = c
    /\ closure' = Capture(pressure, poreSize, c, stirRate, isRunning)
    /\ particles' = createParticles(c, meanSoluteSize, s, 0)
    /\ Observe("generate")
    /\ UNCHANGED <<pressure, poreSize, meanSoluteSize, stirRate, isRunning, time,
                   membraneHealth, animationRef, lastTimeRef, clock, lanes, queue,
                   base, inputs, dt, loop>>

GeneratorNext ==
    \E c \in GeneratorConcentrationSet, s \in GeneratorScriptSet : Generate(c, s)

GeneratorSpec == Init /\ [][GeneratorNext]_vars

(* ---------------------------------------------------- the example scenario *)

\* calls of step in a behaviour of ExampleSpec: the first call of a loop
\* measures dt = 0, the 600 that follow measure one frame each
MaxExampleFrames == 601

\* the script of every render of the scenario
ExampleScriptSet == { High }

\* one frame of the scenario, one tick (dt = 1/60 s) after the previous one;
\* the default parameters (pressure 40, feedConcentration 300, meanSoluteSize
\* 10, poreSize 10, stirRate 40) are those of the mounted component
ExampleStep ==
    /\ frames < MaxExampleFrames
    /\ Frame(1)

ExampleRender == \E s \in ExampleScriptSet : Render(s)

ExampleNext ==
    \/ ExampleStep
    \/ ExampleRender

ExampleSpec == Init /\ [][ExampleNext]_vars

(* ------------------------------------------- a long run, then a backwash *)

\* calls of step in a behaviour of DriftSpec: enough for a retentate
\* particle to drift from the membrane to the far side of the vessel
MaxDriftFrames == 8

\* frame interval of DriftSpec, in ticks: ten seconds, the longest of DtSet
DriftDtSet == {600}

\* controller inputs in a behaviour of DriftSpec
MaxDriftInputs == 1

DriftStep(k) ==
    /\ frames < MaxDriftFrames
    /\ Frame(k)

DriftNext ==
    \/ \E k \in DriftDtSet : DriftStep(k)
    \/ \E s \in ScriptSet : Render(s)
    \/ inputs < MaxDriftInputs /\ \E s \in ScriptSet : handleBackwash(s)

DriftSpec == Init /\ [][DriftNext]_vars

(* ----------------------------------------------- the loop that keeps running *)

\* calls of step in a behaviour of LiveSpec
MaxLiveFrames == 30

\* frame interval of LiveSpec, in ticks: ten seconds, the longest of DtSet
LiveDtSet == {600}

\* controller inputs in a behaviour of LiveSpec
MaxLiveInputs == 1

\* the script of every render of LiveSpec: every jitter at its least value,
\* which holds a feed particle back from the membrane longest (x after a step
\* grows with the value drawn for it)
LiveScriptSet == { Low }

\* the scripts the population of LiveSpec is created from
LiveCreateScriptSet == { Low, High, Mixed }

LiveInit ==
    /\ pressure = 40
    /\ poreSize = 10 * SizeScale
    /\ feedConcentration = 300
    /\ meanSoluteSize = 10 * SizeScale
    /\ stirRate = 40
    /\ isRunning = TRUE
    /\ \E s \in LiveCreateScriptSet :
          /\ particles = createParticles(300, 10 * SizeScale, s, 0)
          /\ queue = << RegenerateUpdate(
                           createParticles(300, 10 * SizeScale, s, createDraws(300))) >>
    /\ time = 0
    /\ membraneHealth = 100 * HealthScale
    /\ base = Committed
    /\ animationRef = "scheduled"
    /\ lastTimeRef = NullTime
    /\ closure = Capture(40, 10 * SizeScale, 300, 40, TRUE)
    /\ clock = 1
    /\ lanes \in LaneSet
    /\ frames = 0
    /\ inputs = 0
    /\ op = "init"
    /\ dt = 0
    /\ prev = Snapshot
    /\ loop = [ cause |-> "mount", idle |-> 0 ]

\* a frame of LiveSpec is delivered when the frame before it is rendered, so
\* that the population every call of step leaves is a state of the behaviour
LiveStep(k) ==
    /\ frames < MaxLiveFrames
    /\ queue = << >>
    /\ Frame(k)

LiveFrame == \E k \in LiveDtSet : LiveStep(k)

LiveRender == \E s \in LiveScriptSet : Render(s)

\* the running simulation with no pause, no reset and no regeneration after
\* the one of mounting: frames, renders, a backwash, a change of pressure or
\* of stirRate
LiveControl ==
    \/ \E s \in LiveScriptSet : handleBackwash(s)
    \/ \E v \in PressureSet, s \in LiveScriptSet : SetPressure(v, s)
    \/ \E v \in StirRateSet, s \in LiveScriptSet : SetStirRate(v, s)

LiveNext ==
    \/ LiveFrame
    \/ LiveRender
    \/ inputs < MaxLiveInputs /\ LiveControl

\* a requested frame is delivered: the steps of a behaviour of LiveSpec that
\* change frames are the LiveFrame steps, and this is enabled when LiveFrame is
FrameDue ==
    /\ animationRef = "scheduled"
    /\ queue = << >>
    /\ frames < MaxLiveFrames
    /\ frames' = frames + 1

\* queued updates are rendered: the steps of a behaviour of LiveSpec that
\* empty the queue are the LiveRender steps, and this is enabled when
\* LiveRender is
RenderDue ==
    /\ queue # << >>
    /\ queue' = << >>

\* every call of step requests the next frame while isRunning (lines 173-175)
\* and the host delivers a requested frame; React renders what is queued
LiveSpec ==
    LiveInit /\ [][LiveNext]_vars /\ WF_frames(FrameDue) /\ WF_queue(RenderDue)


(* ------------------------------------------------------ the flux metric, alone *)

\* renders of the metric in a behaviour of FluxSpec
MaxFluxRenders == 1

\* number of permeate particles in the rendered population
FluxCountSet == {0, 1, 2, 10, 39}

FluxPressureSet == {0, 35, 90, 100}

\* elapsed time, in ticks
FluxTimeSet == {0, 60, 2750}

\* membraneHealth: the ends of its range, 25, 50, and a value a run of fouling
\* steps leaves (96.597...)
FluxHealthSet == {0, 25 * HealthScale, 50 * HealthScale, 573787500, 100 * HealthScale}

\* the population ps with its first k particles in permeate, where a step at
\* pressure p puts a particle that passes the membrane (lines 127-129)
WithPermeate(ps, k, p) ==
    [ i \in 1..Len(ps) |->
        IF i <= k
        THEN [ ps[i] EXCEPT !.region = "permeate",
                            !.x = U(MEMBRANE_X + 16), !.xf = << >>,
                            !.vx = p * ((20 * PosScale) \div 70), !.vxf = << >> ]
        ELSE ps[i] ]

\* a render of the component (lines 189-193) in a state with k permeate
\* particles, pressure p, elapsed time t and membraneHealth h: permeateCount,
\* baseFlux and flux are computed from these four values and nothing else
ShowFlux(k, p, t, h) ==
    /\ frames < MaxFluxRenders
    /\ frames' = frames + 1
    /\ particles' = WithPermeate(particles, k, p)
    /\ pressure' = p
    /\ closure' = Capture(p, poreSize, feedConcentration, stirRate, isRunning)
    /\ time' = t
    /\ membraneHealth' = h
    /\ Observe("flux")
    /\ UNCHANGED <<poreSize, feedConcentration, meanSoluteSize, stirRate, isRunning,
                   animationRef, lastTimeRef, clock, lanes, queue, base, inputs, dt,
                   loop>>

FluxNext ==
    \E k \in FluxCountSet, p \in FluxPressureSet, t \in FluxTimeSet, h \in FluxHealthSet :
        ShowFlux(k, p, t, h)

FluxSpec == Init /\ [][FluxNext]_vars
(* ================================================================ claims *)

Idx == 1..Len(particles)

WasIn(i, region) == prev.particles[i].region = region

IsIn(i, region) == particles[i].region = region

\* the last operation was the render of one call of step and nothing else:
\* the state before it is the state the step's updaters were applied to
StepRendered ==
    /\ op = "render"
    /\ Len(prev.queue) = 1
    /\ prev.queue[1].kind = "step"

\* the dt of that call of step
StepDt == prev.queue[1].dt

\* x of particle p is at most the whole number of units t
AtMost(p, t) == ~Above(p.x, p.xf, t)

\* vx of particle p is zero
NoVx(p) == p.vx = 0 /\ p.vxf = << >>

\* the update queued last before the render
LastQueued == prev.queue[Len(prev.queue)]

(* C1: after every step, every particle lies within the vessel bounds:      *)
(* VESSEL_X+10 <= x <= VESSEL_X+VESSEL_W-10 and                             *)
(* VESSEL_Y+20 <= y <= VESSEL_Y+VESSEL_H-20.                                *)
C1_PositionsWithinBounds ==
    StepRendered =>
        \A i \in Idx :
            /\ particles[i].x >= U(VESSEL_X + 10)
            /\ AtMost(particles[i], U(VESSEL_X + VESSEL_W - 10))
            /\ particles[i].y >= U(VESSEL_Y + 20)
            /\ particles[i].y <= U(VESSEL_Y + VESSEL_H - 20)

(* C2: a feed particle that a step moves to MEMBRANE_X-8 or beyond leaves   *)
(* feed in that step, and it becomes permeate when its size is below the    *)
(* poreSize of the parameter store at that time, retentate otherwise.  A    *)
(* particle that is still in feed has x below MEMBRANE_X-8; x equal to it,  *)
(* or closer to it than the rounding error, is the sum that fell below it   *)
(* in floating point.                                                       *)
C2_PermeationBySizeAndPoreSize ==
    StepRendered =>
        \A i \in Idx :
            WasIn(i, "feed") =>
                /\ IsIn(i, "feed") =>
                      \/ particles[i].x < U(MEMBRANE_X - 8)
                      \/ Near(particles[i].x, particles[i].xf, U(MEMBRANE_X - 8),
                              FeedMagnitude(prev.particles[i], prev.queue[1].env, StepDt))
                /\ ~IsIn(i, "feed") =>
                      IsIn(i, IF prev.particles[i].size < prev.poreSize
                              THEN "permeate" ELSE "retentate")

(* C3: every call of step computes with the parameter values the store      *)
(* holds when it is called, never with values captured before a change.     *)
C3_StepUsesCurrentParameters ==
    op = "frame" =>
        /\ prev.closure.poreSize = prev.poreSize
        /\ prev.closure.pressure = prev.pressure
        /\ prev.closure.stirRate = prev.stirRate
        /\ prev.closure.feedConcentration = prev.feedConcentration

(* C4: the fouling update never raises membraneHealth, and gives            *)
(* clamp(health - (pressure/2200 + feedConcentration/9000) * dt, 0, 100).   *)
(* With health in 1/HealthScale and dt in ticks the decay                   *)
(* (p/2200 + c/9000) * (dt/60) * HealthScale is (45 p + 11 c) * dt.         *)
C4_FoulingDecay ==
    op = "fouling" =>
        LET target == prev.membraneHealth - (45 * pressure + 11 * feedConcentration) * dt
        IN  /\ membraneHealth <= prev.membraneHealth
            /\ membraneHealth = IF target < 0 THEN 0 ELSE target

\* the update was cut off at 0
C4_Witness ==
    /\ op = "fouling"
    /\ dt > 0
    /\ prev.membraneHealth > 0
    /\ prev.membraneHealth < (45 * pressure + 11 * feedConcentration) * dt
    /\ membraneHealth = 0

(* C5: membraneHealth is within [0, 100] in every reachable state, after    *)
(* any sequence of steps, backwashes, resets, pause / resume toggles and    *)
(* parameter changes: in the state every render shows and in the state      *)
(* every update of the queue is applied to.                                 *)
C5_HealthInRange ==
    /\ membraneHealth >= 0
    /\ membraneHealth <= 100 * HealthScale
    /\ prev.membraneHealth >= 0
    /\ prev.membraneHealth <= 100 * HealthScale

\* after a change of pressure, a pause and a resume, a step of ten seconds
\* on a membrane almost fouled was cut off at 0
C5_Witness ==
    /\ StepRendered
    /\ StepDt > 0
    /\ inputs = 3
    /\ pressure # 40
    /\ loop.cause = "resume"
    /\ prev.membraneHealth > 0
    /\ membraneHealth = 0

(* C6: a step and a backwash keep the number of particles, their order,     *)
(* ids and sizes (so does the render of any number of steps and             *)
(* backwashes); the number of particles changes only on a reset or when a   *)
(* regeneration or a reset is rendered, and a regeneration is queued only   *)
(* by a change of feedConcentration, meanSoluteSize or poreSize.            *)
C6_PopulationConserved ==
    /\ (\/ op = "backwash"
        \/ /\ op = "render"
           /\ \A j \in 1..Len(prev.queue) : prev.queue[j].kind \in {"step", "backwash"}) =>
          /\ Len(particles) = Len(prev.particles)
          /\ \A i \in Idx :
                /\ particles[i].id = prev.particles[i].id
                /\ particles[i].size = prev.particles[i].size
    /\ Len(particles) # Len(prev.particles) =>
          \/ op = "reset"
          \/ /\ op = "render"
             /\ \E j \in 1..Len(prev.queue) : prev.queue[j].kind \in {"regenerate", "reset"}
    /\ \A j \in 1..Len(queue) :
          queue[j].kind = "regenerate" =>
              \/ j <= Len(prev.queue) /\ prev.queue[j] = queue[j]
              \/ op \in {"setFeedConcentration", "setMeanSoluteSize", "setPoreSize"}

\* a step recycled a permeate particle
C6_Witness ==
    /\ StepRendered
    /\ Len(particles) = Len(prev.particles)
    /\ \E i \in Idx : WasIn(i, "permeate") /\ IsIn(i, "feed")

(* C7 as stated: flux is never negative, and at membraneHealth = 0 it is    *)
(* 40% of what it is at membraneHealth = 100, for the same permeate count,  *)
(* pressure and elapsed time.                                               *)
C7_FluxAtZeroHealthIs40Percent ==
    \A up, upZero, upFull \in BOOLEAN :
        /\ flux(particles, pressure, time, membraneHealth, up) >= 0
        /\ 5 * flux(particles, pressure, time, 0, upZero)
             = 2 * flux(particles, pressure, time, 100 * HealthScale, upFull)

(* C7 amended: flux is never negative; at membraneHealth = 0 it is          *)
(* 0.4 * baseFlux and at membraneHealth = 100 it is 1.4 * baseFlux, each    *)
(* rounded to two decimals (so the former is 2/7 of the latter before the   *)
(* rounding), and the flux at the current health lies between the two.      *)
(* baseFlux = num / den with num = permeateCount * pressure * 60 and        *)
(* den = 50 * (60 + time in ticks); flux is in hundredths, and a value f    *)
(* is x rounded to two decimals when |f - 100 x| <= 1/2.  Each of the three *)
(* values is rounded on its own, so the side a tie falls on is chosen for   *)
(* each.                                                                    *)
C7_FluxBounds ==
    LET count == Cardinality({ i \in Idx : IsIn(i, "permeate") })
        num == count * pressure * 60
        den == 50 * (60 + time)
    IN  \A up, upZero, upFull \in BOOLEAN :
            LET now == flux(particles, pressure, time, membraneHealth, up)
                atZero == flux(particles, pressure, time, 0, upZero)
                atFull == flux(particles, pressure, time, 100 * HealthScale, upFull)
            IN  /\ now >= 0
                /\ 2 * den * atZero - 2 * 40 * num <= den
                /\ 2 * 40 * num - 2 * den * atZero <= den
                /\ 2 * den * atFull - 2 * 140 * num <= den
                /\ 2 * 140 * num - 2 * den * atFull <= den
                /\ atZero <= now
                /\ now <= atFull

\* a render whose value lies half way between two hundredths, so that the
\* rounding of the double decides the flux shown, on a fouled membrane with
\* particles in permeate
C7_Witness ==
    /\ op = "flux"
    /\ \E i \in Idx : IsIn(i, "permeate")
    /\ membraneHealth > 0
    /\ membraneHealth < 100 * HealthScale
    /\ flux(particles, pressure, time, membraneHealth, TRUE)
         # flux(particles, pressure, time, membraneHealth, FALSE)
    /\ flux(particles, pressure, time, 0, FALSE) > 0

(* C8: a backwash from health h gives min(h + 25, 100); every particle      *)
(* that was in retentate is in feed with x reduced by 40; afterwards no     *)
(* particle is in retentate.                                                *)
C8_Backwash ==
    op = "backwash" =>
        /\ membraneHealth = Min2(prev.membraneHealth + 25 * HealthScale, 100 * HealthScale)
        /\ \A i \in Idx :
              /\ WasIn(i, "retentate") =>
                    /\ IsIn(i, "feed")
                    /\ particles[i].x = prev.particles[i].x - U(40)
                    /\ particles[i].xf = prev.particles[i].xf
              /\ ~IsIn(i, "retentate")

\* a backwash acted on a population with retentate particles and a membrane
\* fouled below 75: the health it leaves is below 100
C8_Witness ==
    /\ op = "backwash"
    /\ \E i \in Idx : WasIn(i, "retentate")
    /\ prev.membraneHealth > 0
    /\ prev.membraneHealth < 75 * HealthScale
    /\ membraneHealth = prev.membraneHealth + 25 * HealthScale

(* C9: a backwash leaves unchanged every particle that was in permeate or   *)
(* in feed, the elapsed time, the run/pause flag and the five parameters;   *)
(* of a retentate particle it changes only x and region.                    *)
C9_BackwashFrame ==
    op = "backwash" =>
        /\ \A i \in Idx :
              /\ ~WasIn(i, "retentate") => particles[i] = prev.particles[i]
              /\ WasIn(i, "retentate") =>
                    /\ particles[i].id = prev.particles[i].id
                    /\ particles[i].y = prev.particles[i].y
                    /\ particles[i].size = prev.particles[i].size
                    /\ particles[i].vx = prev.particles[i].vx
                    /\ particles[i].vxf = prev.particles[i].vxf
                    /\ particles[i].vy = prev.particles[i].vy
        /\ time = prev.time
        /\ isRunning = prev.isRunning
        /\ pressure = prev.pressure
        /\ poreSize = prev.poreSize
        /\ feedConcentration = prev.feedConcentration
        /\ meanSoluteSize = prev.meanSoluteSize
        /\ stirRate = prev.stirRate

\* a backwash acted on a population with permeate, feed and retentate particles
C9_Witness ==
    /\ op = "backwash"
    /\ \E i \in Idx : WasIn(i, "permeate")
    /\ \E i \in Idx : WasIn(i, "feed") /\ prev.particles[i].vx # 0
    /\ \E i \in Idx : WasIn(i, "retentate") /\ prev.particles[i].vx # 0
    /\ prev.time > 0

(* C10: a reset gives a fresh population of round(20 + (c - 100)/1400 * 130) *)
(* particles for the current feedConcentration c, all in feed at zero        *)
(* velocity, elapsed time 0 and membraneHealth 100, and leaves the five      *)
(* parameters and the run/pause flag unchanged.                              *)
(* n = round(x) for x = 20 + 13 (c - 100) / 140 iff n - 1/2 <= x < n + 1/2.  *)
C10_Reset ==
    op = "reset" =>
        LET n == Len(particles)
            x140 == 20 * 140 + 13 * (feedConcentration - 100)
        IN  /\ 140 * (2 * n - 1) <= 2 * x140
            /\ 2 * x140 < 140 * (2 * n + 1)
            /\ \A i \in Idx :
                  /\ particles[i].id = i - 1
                  /\ IsIn(i, "feed")
                  /\ NoVx(particles[i])
                  /\ particles[i].vy = 0
            /\ time = 0
            /\ membraneHealth = 100 * HealthScale
            /\ store = <<prev.pressure, prev.poreSize, prev.feedConcentration,
                         prev.meanSoluteSize, prev.stirRate>>
            /\ isRunning = prev.isRunning

\* a reset acted on a run that had aged, after a change of
\* feedConcentration: time had passed, the membrane had fouled and particles
\* had left feed
C10_Witness ==
    /\ op = "reset"
    /\ feedConcentration # 300
    /\ Len(particles) # Len(prev.particles)
    /\ prev.time > 0
    /\ prev.membraneHealth < 100 * HealthScale
    /\ \E i \in 1..Len(prev.particles) : prev.particles[i].region # "feed"

(* C11: a change of feedConcentration, meanSoluteSize or poreSize queues a   *)
(* fresh population (every particle in feed at zero velocity) and elapsed   *)
(* time 0, and the render that ends with them shows that population and     *)
(* time 0; alone in the queue they leave membraneHealth as it was.  A        *)
(* change of pressure or stirRate queues nothing and leaves the population, *)
(* the elapsed time and membraneHealth as they were.                        *)
C11_RegenerationFrame ==
    /\ op \in {"setFeedConcentration", "setMeanSoluteSize", "setPoreSize"} =>
          /\ Len(queue) = Len(prev.queue) + 1
          /\ queue[Len(queue)].kind = "regenerate"
          /\ LET fresh == queue[Len(queue)].particles
             IN  /\ Len(fresh) = particleNumber(feedConcentration)
                 /\ \A i \in 1..Len(fresh) :
                       /\ fresh[i].region = "feed"
                       /\ NoVx(fresh[i])
                       /\ fresh[i].vy = 0
    /\ (op = "render" /\ LastQueued.kind = "regenerate") =>
          /\ particles = LastQueued.particles
          /\ time = 0
          /\ Len(prev.queue) = 1 => membraneHealth = prev.membraneHealth
    /\ op \in {"setPressure", "setStirRate"} =>
          /\ particles = prev.particles
          /\ time = prev.time
          /\ membraneHealth = prev.membraneHealth
          /\ queue = prev.queue

\* a regeneration was rendered on a run that had aged: time had passed, the
\* membrane had fouled and particles had left feed
C11_Witness ==
    /\ op = "render"
    /\ Len(prev.queue) = 1
    /\ LastQueued.kind = "regenerate"
    /\ prev.time > 0
    /\ time = 0
    /\ prev.membraneHealth < 100 * HealthScale
    /\ membraneHealth = prev.membraneHealth
    /\ \E i \in 1..Len(prev.particles) :
          prev.particles[i].region # "feed" /\ prev.particles[i].vx # 0
    /\ \A i \in Idx : IsIn(i, "feed")

(* C12: for every feedConcentration c in [100, 1500] the generator returns  *)
(* exactly n = round(20 + ((c - 100) / 1400) * 130) particles, with          *)
(* 20 <= n <= 150, n = 20 at c = 100 and n = 150 at c = 1500, with ids       *)
(* 0..n-1, each in feed at zero velocity.                                    *)
(* n = round(x) for x = 20 + 13 (c - 100) / 140 iff n - 1/2 <= x < n + 1/2.  *)
C12_ParticleCount ==
    op = "generate" =>
        LET n == Len(particles)
            x140 == 20 * 140 + 13 * (feedConcentration - 100)
        IN  /\ 140 * (2 * n - 1) <= 2 * x140
            /\ 2 * x140 < 140 * (2 * n + 1)
            /\ n >= 20
            /\ n <= 150
            /\ feedConcentration = 100 => n = 20
            /\ feedConcentration = 1500 => n = 150
            /\ \A i \in Idx :
                  /\ particles[i].id = i - 1
                  /\ IsIn(i, "feed")
                  /\ NoVx(particles[i])
                  /\ particles[i].vy = 0

\* the generator ran on a concentration whose particle number is a tie:
\* 20 + (70 / 1400) * 130 = 26.5, rounded to 27
C12_Witness ==
    /\ op = "generate"
    /\ feedConcentration = 170
    /\ Len(particles) = 27
    /\ particles[27].id = 26

(* C13: a step with dt = 0 is a no-op: the population (every particle's    *)
(* position, velocity and region), membraneHealth and the elapsed time are *)
(* after the step what they were before it.                                 *)
C13_ZeroDtStepIsNoOp ==
    (StepRendered /\ StepDt = 0) =>
        /\ particles = prev.particles
        /\ membraneHealth = prev.membraneHealth
        /\ time = prev.time

(* C14 as stated: in the example scenario (pressure 40, feedConcentration   *)
(* 300, meanSoluteSize 10, poreSize 10, stirRate 40, 600 steps of           *)
(* dt = 1/60) the particle count is 40 and stays 40, membraneHealth falls   *)
(* by (40/2200 + 300/9000) * 10 over the 600 steps, and flux is never       *)
(* negative.                                                                *)
C14_ExampleCountIs40 ==
    /\ Len(particles) = 40
    /\ time = 600 =>
          (100 * HealthScale - membraneHealth) \div (HealthScale \div 1000) = 515
    /\ \A up \in BOOLEAN : flux(particles, pressure, time, membraneHealth, up) >= 0

(* C14 amended: in the example scenario the particle count is               *)
(* round(20 + (200/1400) * 130) = round(38.57) = 39 and stays 39 after      *)
(* every step; membraneHealth after elapsed time t is                       *)
(* 100 - (40/2200 + 300/9000) * t, so it has fallen by 0.515 (to three      *)
(* decimals) after the 600 steps; flux is never negative.                   *)
(* In 1/HealthScale and ticks the decay (40/2200 + 300/9000) per second is  *)
(* 45 * 40 + 11 * 300 per tick.                                             *)
C14_ExampleScenario ==
    /\ Len(particles) = 39
    /\ Len(prev.particles) = 39
    /\ membraneHealth = 100 * HealthScale - (45 * 40 + 11 * 300) * time
    /\ time = 600 =>
          (100 * HealthScale - membraneHealth) \div (HealthScale \div 1000) = 515
    /\ \A up \in BOOLEAN : flux(particles, pressure, time, membraneHealth, up) >= 0

\* the scenario ran to its end: the 600 steps of dt = 1/60 after the first
\* call are rendered, with particles in permeate and a positive flux
C14_Witness ==
    /\ op = "render"
    /\ frames = 601
    /\ queue = << >>
    /\ time = 600
    /\ pressure = 40 /\ feedConcentration = 300 /\ stirRate = 40
    /\ poreSize = 10 * SizeScale /\ meanSoluteSize = 10 * SizeScale
    /\ membraneHealth < 100 * HealthScale
    /\ flux(particles, pressure, time, membraneHealth, FALSE) > 0

(* C15: while isRunning is false no step is invoked: no frame is pending,   *)
(* every call of step starts from a running state, and on a paused state   *)
(* the population, membraneHealth and the elapsed time change only through *)
(* a backwash, a reset or a regenerating parameter change (the render of   *)
(* what these queued), never through what a call of step queued.           *)
C15_PausedNoStep ==
    /\ ~isRunning => animationRef = Null
    /\ op = "frame" => (prev.isRunning /\ prev.closure.isRunning)
    /\ (/\ ~prev.isRunning
        /\ <<particles, membraneHealth, time>>
             # <<prev.particles, prev.membraneHealth, prev.time>>) =>
          \/ op \in {"backwash", "reset"}
          \/ /\ op = "render"
             /\ \A j \in 1..Len(prev.queue) : prev.queue[j].kind # "step"

(* C15, for a React that renders a discrete event together with the       *)
(* updates that wait: the same property.                                    *)
C15_PausedNoStepUnified == lanes = "unified" => C15_PausedNoStep

(* C15, the part that does not depend on how React renders: no frame is    *)
(* pending while paused, and step is never called on a paused state.        *)
C15_NoCallWhilePaused ==
    /\ ~isRunning => animationRef = Null
    /\ op = "frame" => (prev.isRunning /\ prev.closure.isRunning)

(* C16: a step that moves a permeate particle's x past the right-side      *)
(* limit VESSEL_X+VESSEL_W-20 recycles it in that same step: no particle    *)
(* that was in permeate is still in permeate with x beyond the limit, and   *)
(* a particle that left permeate keeps its id and size, is in feed with     *)
(* velocity (0, 0) and has VESSEL_X+20 <= x <= VESSEL_X+60.                 *)
C16_Recycle ==
    StepRendered =>
        \A i \in Idx :
            WasIn(i, "permeate") =>
                /\ particles[i].id = prev.particles[i].id
                /\ particles[i].size = prev.particles[i].size
                /\ IsIn(i, "permeate") =>
                      AtMost(particles[i], U(VESSEL_X + VESSEL_W - 20))
                /\ ~IsIn(i, "permeate") =>
                      /\ IsIn(i, "feed")
                      /\ NoVx(particles[i])
                      /\ particles[i].vy = 0
                      /\ particles[i].x >= U(VESSEL_X + 20)
                      /\ AtMost(particles[i], U(VESSEL_X + 60))

\* a step recycled a moving permeate particle to the feed side
C16_Witness ==
    /\ StepRendered
    /\ StepDt > 0
    /\ \E i \in Idx :
          /\ WasIn(i, "permeate")
          /\ prev.particles[i].vx > 0
          /\ IsIn(i, "feed")
          /\ prev.particles[i].x >= U(MEMBRANE_X + 16)
          /\ particles[i].x <= U(VESSEL_X + 60)

(* C17: a call of step measures dt >= 0 and its render adds that dt to the *)
(* elapsed time, so the elapsed time never decreases across steps; a reset *)
(* and the render that ends with a regeneration or a reset set it to 0; no *)
(* other operation changes it.                                             *)
C17_ElapsedTime ==
    /\ op = "frame" =>
          /\ dt >= 0
          /\ queue[Len(queue)].kind = "step"
          /\ queue[Len(queue)].dt = dt
          /\ time = prev.time
    /\ StepRendered =>
          /\ StepDt >= 0
          /\ time = prev.time + StepDt
          /\ time >= prev.time
    /\ op = "reset" => time = 0
    /\ (op = "render" /\ LastQueued.kind \in {"regenerate", "reset"}) => time = 0
    /\ op \in {"setPressure", "setStirRate", "toggleRunning", "backwash", "idle",
               "setFeedConcentration", "setMeanSoluteSize", "setPoreSize"} =>
          time = prev.time

\* a step with dt > 0 advanced an elapsed time that was already positive
C17_Witness ==
    /\ StepRendered
    /\ StepDt > 0
    /\ prev.time > 0
    /\ time = prev.time + StepDt

(* C18: region changes follow a state machine.  A step changes a region    *)
(* only feed -> permeate, feed -> retentate or permeate -> feed, and never *)
(* the region of a retentate particle; a backwash changes retentate ->     *)
(* feed and nothing else; the operations that keep the population (a call  *)
(* of step before its render, pressure and stirRate changes, pause /       *)
(* resume) change no region.  So retentate -> feed happens through         *)
(* backwash only, and retentate -> permeate and permeate -> retentate      *)
(* never happen.                                                            *)
C18_RegionStateMachine ==
    /\ StepRendered =>
          \A i \in Idx :
              /\ WasIn(i, "feed") =>
                    (IsIn(i, "feed") \/ IsIn(i, "permeate") \/ IsIn(i, "retentate"))
              /\ WasIn(i, "retentate") => IsIn(i, "retentate")
              /\ WasIn(i, "permeate") => (IsIn(i, "permeate") \/ IsIn(i, "feed"))
    /\ op = "backwash" =>
          \A i \in Idx :
              /\ WasIn(i, "retentate") => IsIn(i, "feed")
              /\ ~WasIn(i, "retentate") => IsIn(i, prev.particles[i].region)
    /\ op \in {"frame", "setPressure", "setStirRate", "toggleRunning", "idle"} =>
          \A i \in Idx : IsIn(i, prev.particles[i].region)

\* a step moved a retentate particle off the membrane and left it in
\* retentate, and recycled a permeate particle
C18_Witness ==
    /\ StepRendered
    /\ \E i \in Idx :
          /\ WasIn(i, "retentate")
          /\ IsIn(i, "retentate")
          /\ particles[i].x < prev.particles[i].x
    /\ \E j \in Idx : WasIn(j, "permeate") /\ IsIn(j, "feed")

(* C19: after a backwash, every particle it moved from retentate to feed   *)
(* still has x >= VESSEL_X+10, the vessel's left bound.                     *)
C19_BackwashKeepsInsideVessel ==
    op = "backwash" =>
        \A i \in Idx :
            (WasIn(i, "retentate") /\ IsIn(i, "feed")) =>
                particles[i].x >= U(VESSEL_X + 10)

(* C20: region and side of the membrane agree in every reachable state:    *)
(* a retentate particle has VESSEL_X+20 <= x <= MEMBRANE_X-10, a feed       *)
(* particle has x < MEMBRANE_X, a permeate particle has x >= MEMBRANE_X+16.  *)
C20_RegionAndSideAgree ==
    \A i \in Idx :
        /\ IsIn(i, "retentate") =>
              /\ particles[i].x >= U(VESSEL_X + 20)
              /\ AtMost(particles[i], U(MEMBRANE_X - 10))
        /\ IsIn(i, "feed") => particles[i].x < U(MEMBRANE_X)
        /\ IsIn(i, "permeate") => particles[i].x >= U(MEMBRANE_X + 16)

\* a step left particles in all three regions: a retentate particle that
\* drifted off the membrane, a permeate particle beyond its entry point and a
\* feed particle moving towards the membrane
C20_Witness ==
    /\ StepRendered
    /\ \E i \in Idx : IsIn(i, "retentate") /\ particles[i].x < U(MEMBRANE_X - 10)
    /\ \E i \in Idx : IsIn(i, "permeate") /\ particles[i].x > U(MEMBRANE_X + 16)
    /\ \E i \in Idx : IsIn(i, "feed") /\ particles[i].vx > 0

(* C21: the first step after the loop is (re)started runs with dt = 0.     *)
(* A pause, a resume and a change of pressure, stirRate or feedConcentration *)
(* leave no timestamp of an earlier frame behind; a call of step that finds *)
(* no such timestamp measures dt = 0, however long after the last frame it  *)
(* runs; the render of a step of dt = 0 adds nothing to the elapsed time    *)
(* and applies no fouling decay, and neither does the time the clock         *)
(* advances while the simulation is paused.                                  *)
C21_FirstStepAfterRestart ==
    /\ op \in {"toggleRunning", "setPressure", "setStirRate", "setFeedConcentration"} =>
          lastTimeRef = NullTime
    /\ (op = "frame" /\ prev.lastTimeRef = NullTime) =>
          /\ dt = 0
          /\ queue[Len(queue)].kind = "step"
          /\ queue[Len(queue)].dt = 0
    /\ (StepRendered /\ StepDt = 0) =>
          /\ time = prev.time
          /\ membraneHealth = prev.membraneHealth
    /\ op = "idle" =>
          /\ clock > prev.clock
          /\ time = prev.time
          /\ membraneHealth = prev.membraneHealth
          /\ queue = prev.queue

\* the first step after a resume was rendered on an aged run with dt = 0:
\* the simulation had been paused for ten seconds, and neither the elapsed
\* time nor membraneHealth has changed
C21_Witness ==
    /\ StepRendered
    /\ StepDt = 0
    /\ loop.cause = "resume"
    /\ loop.idle >= 600
    /\ prev.time > 0
    /\ prev.membraneHealth < 100 * HealthScale
    /\ time = prev.time
    /\ membraneHealth = prev.membraneHealth

(* C22: the system recirculates.  While the simulation keeps running with  *)
(* frames of positive dt and there is no reset and no regeneration, a       *)
(* particle in feed eventually leaves feed (it reaches the membrane and     *)
(* becomes permeate or retentate), a particle in permeate is eventually     *)
(* recycled to feed, and a retentate particle leaves retentate only in a    *)
(* backwash.  The run has MaxLiveFrames frames: the two eventualities are   *)
(* stated of a particle that is in feed with FeedHorizon frames to come,    *)
(* and in permeate with PermeateHorizon frames to come.                     *)
FeedHorizon == 16

PermeateHorizon == 3

LiveIdx == 1..particleNumber(300)

C22_Recirculates ==
    /\ \A i \in LiveIdx :
          (IsIn(i, "feed") /\ frames + FeedHorizon <= MaxLiveFrames)
              ~> ~IsIn(i, "feed")
    /\ \A i \in LiveIdx :
          (IsIn(i, "permeate") /\ frames + PermeateHorizon <= MaxLiveFrames)
              ~> IsIn(i, "feed")
    /\ [][\A i \in LiveIdx :
              (IsIn(i, "retentate") /\ particles'[i].region # "retentate")
                  => op' = "backwash"]_vars

\* late in a run a step took a particle from feed to the membrane, with a
\* retentate particle staying where it was and a particle that had been
\* recycled from permeate on its way through feed again
C22_Witness ==
    /\ StepRendered
    /\ StepDt > 0
    /\ frames >= FeedHorizon
    /\ \E i \in Idx : WasIn(i, "feed") /\ ~IsIn(i, "feed")
    /\ \E i \in Idx : WasIn(i, "retentate") /\ IsIn(i, "retentate")

====
